---- MODULE Spec2Model ----
(***************************************************************************)
(* State-machine model of the three media containers of waveshift:         *)
(*   - audio-segment-container  (process_audio, execute_ffmpeg_for_ranges) *)
(*   - separate-container of waveshift-ffmpeg-worker (tokio, try_join!)    *)
(*   - separate-container of ffmpeg-worker (std::process, sequential)      *)
(* One behaviour follows one POST request through one of the containers.   *)
(* The external tool (ffmpeg) and the file system are the environment.     *)
(***************************************************************************)
EXTENDS Integers, Sequences, FiniteSets, TLC

\* ------------------------------------------------------------------ bounds
\* Longest decoded X-Time-Ranges array the model enumerates.
MaxRanges == 3

\* ------------------------------------------------------- program constants
\* unwrap_or(500) for x-gap-duration
DefaultGap == 500
\* the largest i32 (Vec<Vec<i32>>, gap_duration_ms: i32)
I32Max == 2147483647
\* "-ar", "16000"
TargetRate == 16000
\* sample_rate=44100 of the anullsrc silence source
GapSampleRate == 44100

I32Min == (-I32Max) - 1

\* ------------------------------------------------------------ the services
AudioSegment == "audio-segment-container"
SeparateParallel == "waveshift-ffmpeg-worker"
SeparateSequential == "ffmpeg-worker"
Services == {AudioSegment, SeparateParallel, SeparateSequential}

\* --------------------------------------------------------- scratch paths
\* One request is in flight, so each scratch file is named by its role.
InputPath == "input_file"
OutputPath == "output_file"
AudioFilename == "uuid_audio.aac"
VideoFilename == "uuid_video.mp4"
Paths == {InputPath, OutputPath, AudioFilename, VideoFilename}

\* A path that does not exist maps to NoFile; an existing empty file to "".
NoFile == "<no file>"
EmptyBytes == ""

\* ------------------------------------------------------- request inputs
Absent == "<absent>"

\* Request bodies: empty, or some media bytes.
Bodies == {EmptyBytes, "media-bytes"}

\* A JSON number of a header: an integer literal that fits i32, or a literal
\* that does not (too large, or with a fraction).
Num(n) == [fits |-> TRUE, v |-> n]
NotI32 == [fits |-> FALSE, v |-> 0]

\* Elements a JSON array in X-Time-Ranges may hold: well-formed pairs (two of
\* them distinct, so that order is observable), a zero and a negative duration,
\* a pair whose difference leaves i32, an element of one and of three numbers,
\* and an element with a number that is no i32.
RangeElems ==
    { <<Num(0), Num(2000)>>, <<Num(1000), Num(3000)>>,
      <<Num(1000), Num(1000)>>, <<Num(3000), Num(1000)>>,
      <<Num(-2000000000), Num(2000000000)>>,
      <<Num(500)>>, <<Num(0), Num(1000), Num(2000)>>,
      <<Num(0), NotI32>> }

RECURSIVE SeqsUpTo(_, _)
SeqsUpTo(S, n) ==
    IF n = 0 THEN { <<>> }
    ELSE LET shorter == SeqsUpTo(S, n - 1)
         IN shorter \cup { Append(s, e) : s \in { t \in shorter : Len(t) = n - 1 }, e \in S }

\* The X-Time-Ranges header: absent, not a JSON array of arrays of numbers,
\* or such an array.
TimeRangesHeaders ==
    { [kind |-> "absent", elems |-> <<>>], [kind |-> "garbage", elems |-> <<>>] }
    \cup [kind : {"array"}, elems : SeqsUpTo(RangeElems, MaxRanges)]

\* The X-Gap-Duration header: absent, not a number, a number, a number that
\* is no i32.
GapHeaders ==
    { [kind |-> "absent", lit |-> NotI32], [kind |-> "garbage", lit |-> NotI32],
      [kind |-> "number", lit |-> Num(250)], [kind |-> "number", lit |-> NotI32] }

\* X-Segment-Id and X-Speaker, absent together or present together.
IdHeaders == { <<Absent, Absent>>, <<"seg-1", "spk-1">> }

\* ---------------------------------------------------------- pure helpers
\* Whether a - b leaves i32, decided without leaving it.
SubOverflows(a, b) ==
    \/ b < 0 /\ a > I32Max + b
    \/ b > 0 /\ a < I32Min + b

Abs(x) == IF x < 0 THEN -x ELSE x

\* serde_json::from_str::<Vec<Vec<i32>>>: Err unless the text is an array of
\* arrays whose numbers all fit i32.
DecodeTimeRanges(h) ==
    IF h.kind = "array"
       /\ \A k \in 1..Len(h.elems) :
            \A j \in 1..Len(h.elems[k]) : h.elems[k][j].fits
    THEN [ok |-> TRUE,
          val |-> [k \in 1..Len(h.elems) |->
                     [j \in 1..Len(h.elems[k]) |-> h.elems[k][j].v]]]
    ELSE [ok |-> FALSE, val |-> <<>>]

\* The faulty variant of ParseGap that falls back to no gap at all.
ParseGapZeroDefault(h) ==
    IF h.kind = "number" /\ h.lit.fits THEN h.lit.v ELSE 0

\* headers.get("x-gap-duration") ... .and_then(parse::<i32>) ... unwrap_or(500)
ParseGap(h) ==
    IF h.kind = "number" /\ h.lit.fits THEN h.lit.v ELSE DefaultGap

\* headers.get(..).unwrap_or("unknown")
IdOrUnknown(v) == IF v = Absent THEN "unknown" ELSE v

\* format!("{:.3}", ms as f64 / 1000.0): sign, whole seconds, three decimals.
\* (Every i32 is exact in f64 and the quotient rounds to the same decimals.)
FormatSec(ms) ==
    [neg |-> ms < 0, whole |-> Abs(ms) \div 1000, frac |-> Abs(ms) % 1000]

\* The milliseconds a formatted "-ss"/"-t" argument denotes to the tool.
ArgMillis(a) ==
    (IF a.neg THEN -1 ELSE 1) * (a.whole * 1000 + a.frac)


\* ------------------------------------------- execute_ffmpeg_for_ranges plan
\* i32 subtraction a - b as the machine computes it when it does not trap:
\* the difference modulo 2^32, written so that no intermediate value leaves
\* i32 (2^32 = I32Max - I32Min + 1).
Sub32(a, b) ==
    IF b < 0 /\ a > I32Max + b THEN ((a - I32Max) + (I32Min - b)) - 1
    ELSE IF b > 0 /\ a < I32Min + b THEN ((a - I32Min) + (I32Max - b)) + 1
    ELSE a - b

\* Whether reading one range traps: range[0] / range[1] out of bounds, or
\* (with overflow checks compiled in) end_ms - start_ms leaving i32.
RangePanics(r, checks) ==
    \/ Len(r) < 2
    \/ checks /\ SubOverflows(r[2], r[1])

\* start_sec, duration_sec of one range, formatted for "-ss" and "-t".
Trim(r) ==
    [ss |-> FormatSec(r[1]), t |-> FormatSec(Sub32(r[2], r[1]))]

\* Stream labels of the filter graph: "[i:a]" of tool input i, and "[gap]".
SegLabel(i) == [stream |-> "a", input |-> i]
GapLabel == [stream |-> "gap", input |-> -1]

\* The loop over time_ranges that adds "-ss", "-t", "-i" per range: tool
\* input k (0-based) is element k + 1 of the result.
RECURSIVE InputsLoop(_, _, _)
InputsLoop(i, time_ranges, inputs) ==
    IF i >= Len(time_ranges) THEN inputs
    ELSE InputsLoop(i + 1, time_ranges,
                    Append(inputs, [ss |-> Trim(time_ranges[i + 1]).ss,
                                    t |-> Trim(time_ranges[i + 1]).t,
                                    i |-> InputPath]))

\* The loop that builds concat_parts.  The first definition is the faulty
\* variant that adds a gap after every segment, the last one included.
RECURSIVE ConcatLoopTrailingGap(_, _, _)
ConcatLoopTrailingGap(i, n, concat_parts) ==
    IF i >= n THEN concat_parts
    ELSE ConcatLoopTrailingGap(i + 1, n,
                               Append(Append(concat_parts, SegLabel(i)), GapLabel))

RECURSIVE ConcatLoop(_, _, _)
ConcatLoop(i, n, concat_parts) ==
    IF i >= n THEN concat_parts
    ELSE LET with_seg == Append(concat_parts, SegLabel(i))
             with_gap == IF i < n - 1 THEN Append(with_seg, GapLabel) ELSE with_seg
         IN ConcatLoop(i + 1, n, with_gap)

\* The single-range command.
SingleCutCommand(time_ranges) ==
    [variant |-> "single",
     ss |-> Trim(time_ranges[1]).ss,
     i |-> InputPath,
     t |-> Trim(time_ranges[1]).t,
     ar |-> TargetRate, ac |-> 1, codec |-> "pcm_s16le", f |-> "wav",
     out |-> OutputPath]

\* The multi-range command with its filter_complex.
MultiSegmentCommand(time_ranges, gap_duration_ms) ==
    LET concat_parts == ConcatLoop(0, Len(time_ranges), <<>>)
    IN [variant |-> "multi",
        inputs |-> InputsLoop(0, time_ranges, <<>>),
        gap_filter |-> [layout |-> "mono", sample_rate |-> GapSampleRate,
                        duration |-> FormatSec(gap_duration_ms),
                        label |-> GapLabel],
        concat_parts |-> concat_parts,
        concat_n |-> Len(concat_parts),
        map |-> "[out]",
        ar |-> TargetRate, ac |-> 1, codec |-> "pcm_s16le", f |-> "wav",
        out |-> OutputPath]

\* if time_ranges.len() == 1 { .. } else { .. }
BuildCommand(time_ranges, gap_duration_ms) ==
    IF Len(time_ranges) = 1
    THEN SingleCutCommand(time_ranges)
    ELSE MultiSegmentCommand(time_ranges, gap_duration_ms)

\* Whether building the command traps before the tool is started: an index
\* out of bounds or a checked i32 overflow in a range, or, for an empty
\* array, the checked usize underflow of time_ranges.len() - 1.
BuildPanics(time_ranges, checks) ==
    \/ \E k \in 1..Len(time_ranges) : RangePanics(time_ranges[k], checks)
    \/ Len(time_ranges) = 0 /\ checks

\* The two stream-copy commands of separate_media.
AudioCommand == [variant |-> "audio", i |-> InputPath, drop |-> "-vn",
                 copy |-> "-c:a", out |-> AudioFilename]
VideoCommand == [variant |-> "video", i |-> InputPath, drop |-> "-an",
                 copy |-> "-c:v", out |-> VideoFilename]
NoCommand == [variant |-> "none"]

\* ------------------------------------------------------------- the state
VARIABLES
    service,          \* the container that serves the request
    overflow_checks,  \* whether the build traps on integer overflow
    pc,               \* position of the request handler
    req,              \* the request as received
    fs,               \* scratch file system: path -> bytes, or NoFile
    inv,              \* the tool invocations of the request, by role
    outcome,          \* what the caller gets
    log               \* the file and process operations so far, in order

vars == <<service, overflow_checks, pc, req, fs, inv, outcome, log>>

Roles == {"segment", "audio", "video"}

NotStarted == [state |-> "none", cmd |-> NoCommand, exit_ok |-> FALSE, stderr |-> ""]
\* Command::output() of a process that could not be spawned: an io::Error.
SpawnFailed(cmd) == [state |-> "spawn_err", cmd |-> cmd, exit_ok |-> FALSE, stderr |-> ""]
Running(cmd) == [state |-> "running", cmd |-> cmd, exit_ok |-> FALSE, stderr |-> ""]
\* The faulty variant of Spawn that drops the io::Error of a failed spawn, so
\* that the handler waits for a process that was never started.
SpawnSwallowingError(cmd, ok) == IF ok THEN Running(cmd) ELSE NotStarted
Spawn(cmd, ok) == IF ok THEN Running(cmd) ELSE SpawnFailed(cmd)

\* What the handler hands back: nothing yet, an HTTP response, an Err the
\* server turns into a closed connection, or a panic of the request task.
Pending == [kind |-> "pending"]
ErrReturn(msg) == [kind |-> "err", error |-> msg]
Panicked == [kind |-> "panic"]
\* json!({"success": false, "error": ..}) with the given status
JsonFailure(status, msg) ==
    [kind |-> "response", status |-> status, content_type |-> "application/json",
     json |-> [success |-> FALSE, error |-> msg]]

NoRequest == [service |-> "none"]

EmptyFs == [p \in Paths |-> NoFile]

\* One operation of the handler or of the tool: what was done, and on which
\* path or invocation.
Event(ev, on) == [ev |-> ev, on |-> on]

\* Dropping a NamedTempFile removes its path.
DropTemp(f, dropped) == [p \in Paths |-> IF p \in dropped THEN NoFile ELSE f[p]]

Init ==
    /\ service \in Services
    /\ overflow_checks \in BOOLEAN
    /\ pc = "idle"
    /\ req = NoRequest
    /\ fs = EmptyFs
    /\ inv = [r \in Roles |-> NotStarted]
    /\ outcome = Pending
    /\ log = <<>>

\* result.status.success() of a finished invocation.  The first definition
\* is the faulty variant that overlooks the status of the video command.
StatusSuccessVideoUnchecked(invocation) ==
    invocation.exit_ok \/ invocation.cmd.variant = "video"
\* The faulty variant that overlooks the status of the audio command.
StatusSuccessAudioUnchecked(invocation) ==
    invocation.exit_ok \/ invocation.cmd.variant = "audio"
StatusSuccess(invocation) == invocation.exit_ok

\* ------------------------------------------------------- the external tool
\* What the tool may have written under its output path when it exits.
OutputEffects == {"untouched", "removed", "empty", "data"}
Diagnostics == {"Invalid data found when processing input",
                "Output file does not contain any stream"}
ToolLog == "ffmpeg version 7.1"

ExitResults ==
    { [exit_ok |-> TRUE, stderr |-> ToolLog] }
    \cup [exit_ok : {FALSE}, stderr : Diagnostics]

OutputBytes(role) ==
    CASE role = "segment" -> "wav-bytes"
      [] role = "audio" -> "aac-bytes"
      [] role = "video" -> "mp4-bytes"

\* A running invocation exits: it has written (or not) its output path and
\* reports an exit status and its stderr.  The process is not tied to the
\* handler: it exits whether or not the request is still being served.
ToolExit(role) ==
    /\ inv[role].state = "running"
    /\ \E res \in ExitResults, eff \in OutputEffects :
        /\ inv' = [inv EXCEPT ![role] =
                     [state |-> "exited", cmd |-> inv[role].cmd,
                      exit_ok |-> res.exit_ok, stderr |-> res.stderr]]
        /\ fs' = [fs EXCEPT ![inv[role].cmd.out] =
                     CASE eff = "untouched" -> @
                       [] eff = "removed" -> NoFile
                       [] eff = "empty" -> EmptyBytes
                       [] eff = "data" -> OutputBytes(role)]
    /\ log' = Append(log, Event("exit", role))
    /\ UNCHANGED <<service, overflow_checks, pc, req, outcome>>

\* ------------------------------------------------ audio-segment-container
IoError == "io error"

\* The 200 response of process_audio.
AudioResponse(output_data, segment_id, speaker) ==
    [kind |-> "response", status |-> 200, content_type |-> "audio/wav",
     segment_id |-> segment_id, speaker |-> speaker,
     processing_success |-> "true", body |-> output_data]

\* The Err arm of process_audio's match: 500 with the error text.
ProcessingFailure(e) ==
    JsonFailure(500, <<"FFmpeg processing failed: ">> \o e)

\* The checks that passed, as operations of the log.
StatusOk(role) == Event("status_ok", role)
OutputOk(path) == Event("output_ok", path)

\* The tail of execute_ffmpeg_for_ranges once .output().await has returned:
\* the exit status, the output's metadata, the read.  `steps` are the
\* operations it performed, in order.  The first definition is the faulty
\* variant that reads the output file before looking at the exit status.
ExecuteResultReadFirst(invocation, files, read_ok) ==
    IF invocation.state = "spawn_err"
    THEN [ok |-> FALSE, error |-> <<IoError>>, data |-> EmptyBytes, steps |-> <<>>]
    ELSE IF files[OutputPath] = NoFile \/ ~read_ok
    THEN [ok |-> FALSE, error |-> <<IoError>>, data |-> EmptyBytes, steps |-> <<>>]
    ELSE IF ~StatusSuccess(invocation)
    THEN [ok |-> FALSE, error |-> <<"FFmpeg failed: ", invocation.stderr>>,
          data |-> EmptyBytes, steps |-> <<Event("read", OutputPath)>>]
    ELSE IF files[OutputPath] = EmptyBytes
    THEN [ok |-> FALSE, error |-> <<"FFmpeg produced empty output file">>,
          data |-> EmptyBytes,
          steps |-> <<Event("read", OutputPath), StatusOk("segment")>>]
    ELSE [ok |-> TRUE, error |-> <<>>, data |-> files[OutputPath],
          steps |-> <<Event("read", OutputPath), StatusOk("segment"),
                      OutputOk(OutputPath)>>]
ExecuteResult(invocation, files, read_ok) ==
    IF invocation.state = "spawn_err"
    THEN [ok |-> FALSE, error |-> <<IoError>>, data |-> EmptyBytes, steps |-> <<>>]
    ELSE IF ~StatusSuccess(invocation)
    THEN [ok |-> FALSE, error |-> <<"FFmpeg failed: ", invocation.stderr>>,
          data |-> EmptyBytes, steps |-> <<>>]
    ELSE IF files[OutputPath] = NoFile
    THEN [ok |-> FALSE, error |-> <<IoError>>, data |-> EmptyBytes,
          steps |-> <<StatusOk("segment")>>]
    ELSE IF files[OutputPath] = EmptyBytes
    THEN [ok |-> FALSE, error |-> <<"FFmpeg produced empty output file">>,
          data |-> EmptyBytes, steps |-> <<StatusOk("segment")>>]
    ELSE IF ~read_ok
    THEN [ok |-> FALSE, error |-> <<IoError>>, data |-> EmptyBytes,
          steps |-> <<StatusOk("segment"), OutputOk(OutputPath)>>]
    ELSE [ok |-> TRUE, error |-> <<>>, data |-> files[OutputPath],
          steps |-> <<StatusOk("segment"), OutputOk(OutputPath),
                      Event("read", OutputPath)>>]

\* The input temp file is created and written, the output temp file created.
TempFilesWritten == <<Event("write", InputPath), Event("create", OutputPath)>>
\* Both temp files go out of scope, in reverse order of declaration.
TempFilesDropped == <<Event("remove", OutputPath), Event("remove", InputPath)>>

\* process_audio from the arrival of the request to the first suspension on
\* the tool: headers, decoding, the body, then execute_ffmpeg_for_ranges up
\* to .output().
ProcessAudio ==
    /\ service = AudioSegment
    /\ pc = "idle"
    /\ \E h \in TimeRangesHeaders, g \in GapHeaders, ids \in IdHeaders,
          body \in Bodies, temp_fails \in BOOLEAN, spawn_fails \in BOOLEAN :
        LET decoded == DecodeTimeRanges(h)
            time_ranges == decoded.val
            gap_duration_ms == ParseGap(g)
            r == [service |-> AudioSegment, x_time_ranges |-> h, x_gap_duration |-> g,
                  segment_id |-> IdOrUnknown(ids[1]), speaker |-> IdOrUnknown(ids[2]),
                  body |-> body]
        IN /\ req' = r
           /\ IF h.kind = "absent"
              THEN /\ outcome' = ErrReturn(<<"Missing X-Time-Ranges header">>)
                   /\ pc' = "done"
                   /\ UNCHANGED <<fs, inv, log>>
              ELSE IF ~decoded.ok
              THEN /\ outcome' = ErrReturn(<<"Invalid time ranges format: ", "serde error">>)
                   /\ pc' = "done"
                   /\ UNCHANGED <<fs, inv, log>>
              ELSE IF body = EmptyBytes
              THEN /\ outcome' = JsonFailure(400, <<"No audio data received">>)
                   /\ pc' = "done"
                   /\ UNCHANGED <<fs, inv, log>>
              ELSE IF temp_fails
              THEN \* NamedTempFile::with_suffix / write_all failed
                   /\ outcome' = ProcessingFailure(<<IoError>>)
                   /\ pc' = "done"
                   /\ UNCHANGED <<fs, inv, log>>
              ELSE IF BuildPanics(time_ranges, overflow_checks)
              THEN \* unwinding drops both temp files
                   /\ outcome' = Panicked
                   /\ pc' = "done"
                   /\ log' = log \o TempFilesWritten \o TempFilesDropped
                   /\ UNCHANGED <<fs, inv>>
              ELSE /\ fs' = [fs EXCEPT ![InputPath] = body, ![OutputPath] = EmptyBytes]
                   /\ inv' = [inv EXCEPT !["segment"] =
                                Spawn(BuildCommand(time_ranges, gap_duration_ms), ~spawn_fails)]
                   /\ log' = log \o TempFilesWritten \o <<Event("spawn", "segment")>>
                   /\ pc' = "awaiting"
                   /\ outcome' = Pending
    /\ UNCHANGED <<service, overflow_checks>>

\* .output().await has returned: the rest of execute_ffmpeg_for_ranges, the
\* drop of both temp files, and process_audio's match on the result.
ExecuteFinish ==
    /\ service = AudioSegment
    /\ pc = "awaiting"
    /\ inv["segment"].state \in {"exited", "spawn_err"}
    /\ \E read_fails \in BOOLEAN :
        LET res == ExecuteResult(inv["segment"], fs, ~read_fails)
        IN /\ outcome' = IF res.ok
                         THEN AudioResponse(res.data, req.segment_id, req.speaker)
                         ELSE ProcessingFailure(res.error)
           /\ log' = log \o res.steps \o TempFilesDropped
    /\ fs' = DropTemp(fs, {InputPath, OutputPath})
    /\ pc' = "done"
    /\ UNCHANGED <<service, overflow_checks, req, inv>>

\* ----------------------------------------------------- separate-container
Boundary == "----formdata-boundary-1234567890"

\* The faulty variant of the multipart body that puts the video part first.
MultipartBodyVideoFirst(audio_data, video_data) ==
    << <<"--", Boundary, "\r\n">>,
       <<"Content-Disposition: form-data; name=", "video", "; filename=", "video.mp4", "\r\n">>,
       <<"Content-Type: ", "video/mp4", "\r\n\r\n">>,
       <<video_data>>,
       <<"\r\n">>,
       <<"--", Boundary, "\r\n">>,
       <<"Content-Disposition: form-data; name=", "audio", "; filename=", "audio.aac", "\r\n">>,
       <<"Content-Type: ", "audio/aac", "\r\n\r\n">>,
       <<audio_data>>,
       <<"\r\n">>,
       <<"--", Boundary, "--", "\r\n">> >>

\* The multipart body, one element per extend_from_slice.
MultipartBody(audio_data, video_data) ==
    << <<"--", Boundary, "\r\n">>,
       <<"Content-Disposition: form-data; name=", "audio", "; filename=", "audio.aac", "\r\n">>,
       <<"Content-Type: ", "audio/aac", "\r\n\r\n">>,
       <<audio_data>>,
       <<"\r\n">>,
       <<"--", Boundary, "\r\n">>,
       <<"Content-Disposition: form-data; name=", "video", "; filename=", "video.mp4", "\r\n">>,
       <<"Content-Type: ", "video/mp4", "\r\n\r\n">>,
       <<video_data>>,
       <<"\r\n">>,
       <<"--", Boundary, "--", "\r\n">> >>

MultipartResponse(audio_data, video_data) ==
    [kind |-> "response", status |-> 200,
     content_type |-> <<"multipart/form-data; boundary=", Boundary>>,
     body |-> MultipartBody(audio_data, video_data)]

\* The input NamedTempFile goes out of scope when separate_media returns.
InputDropped == Event("remove", InputPath)

\* The Err of a failed exit-status check (the source's messages are Chinese:
\* "audio / video separation failed: {stderr}").
StatusError(role, invocation) ==
    IF role = "audio"
    THEN ErrReturn(<<"audio separation failed: ", invocation.stderr>>)
    ELSE ErrReturn(<<"video separation failed: ", invocation.stderr>>)

\* separate_media from the exists() checks on: both outputs must exist, are
\* read, are removed, and go into the multipart body.  Yields the outcome
\* and the file system it leaves (the input temp file is dropped on return),
\* and the operations performed, in order.
VerifyAndAssemble(files, read_audio_ok, read_video_ok) ==
    IF files[AudioFilename] = NoFile
    THEN [outcome |-> ErrReturn(<<"audio output file does not exist: ", AudioFilename>>),
          fs |-> DropTemp(files, {InputPath}),
          steps |-> <<InputDropped>>]
    ELSE IF files[VideoFilename] = NoFile
    THEN [outcome |-> ErrReturn(<<"video output file does not exist: ", VideoFilename>>),
          fs |-> DropTemp(files, {InputPath}),
          steps |-> <<OutputOk(AudioFilename), InputDropped>>]
    ELSE IF ~read_audio_ok
    THEN [outcome |-> ErrReturn(<<IoError>>), fs |-> DropTemp(files, {InputPath}),
          steps |-> <<OutputOk(AudioFilename), OutputOk(VideoFilename), InputDropped>>]
    ELSE IF ~read_video_ok
    THEN [outcome |-> ErrReturn(<<IoError>>), fs |-> DropTemp(files, {InputPath}),
          steps |-> <<OutputOk(AudioFilename), OutputOk(VideoFilename),
                      Event("read", AudioFilename), InputDropped>>]
    ELSE [outcome |-> MultipartResponse(files[AudioFilename], files[VideoFilename]),
          fs |-> DropTemp(files, {InputPath, AudioFilename, VideoFilename}),
          steps |-> <<OutputOk(AudioFilename), OutputOk(VideoFilename),
                      Event("read", AudioFilename), Event("read", VideoFilename),
                      Event("remove", AudioFilename), Event("remove", VideoFilename),
                      InputDropped>>]

\* waveshift-ffmpeg-worker: the body is read and written to the input temp
\* file, then both commands are spawned by their .output() calls.
SeparateParallelStart ==
    /\ service = SeparateParallel
    /\ pc = "idle"
    /\ \E body \in Bodies, temp_fails \in BOOLEAN,
          audio_spawn_fails \in BOOLEAN, video_spawn_fails \in BOOLEAN :
        /\ req' = [service |-> SeparateParallel, body |-> body]
        /\ IF temp_fails
           THEN /\ outcome' = ErrReturn(<<IoError>>)
                /\ pc' = "done"
                /\ UNCHANGED <<fs, inv, log>>
           ELSE /\ fs' = [fs EXCEPT ![InputPath] = body]
                /\ inv' = [inv EXCEPT !["audio"] = Spawn(AudioCommand, ~audio_spawn_fails),
                                      !["video"] = Spawn(VideoCommand, ~video_spawn_fails)]
                /\ log' = log \o <<Event("write", InputPath),
                                    Event("spawn", "audio"), Event("spawn", "video")>>
                /\ pc' = "joining"
                /\ outcome' = Pending
    /\ UNCHANGED <<service, overflow_checks>>

\* tokio::try_join!(audio_future, video_future)? and the rest of the handler.
\* try_join! returns at the first Err of either future, and otherwise once
\* both are Ok; the ? returns the Err, dropping the other future.
TryJoin ==
    /\ service = SeparateParallel
    /\ pc = "joining"
    /\ \/ \E r \in {"audio", "video"} : inv[r].state = "spawn_err"
       \/ \A r \in {"audio", "video"} : inv[r].state = "exited"
    /\ \E read_audio_fails \in BOOLEAN, read_video_fails \in BOOLEAN :
        IF \E r \in {"audio", "video"} : inv[r].state = "spawn_err"
        THEN /\ outcome' = ErrReturn(<<IoError>>)
             /\ fs' = DropTemp(fs, {InputPath})
             /\ log' = Append(log, InputDropped)
        ELSE IF ~StatusSuccess(inv["audio"])
        THEN /\ outcome' = StatusError("audio", inv["audio"])
             /\ fs' = DropTemp(fs, {InputPath})
             /\ log' = Append(log, InputDropped)
        ELSE IF ~StatusSuccess(inv["video"])
        THEN /\ outcome' = StatusError("video", inv["video"])
             /\ fs' = DropTemp(fs, {InputPath})
             /\ log' = log \o <<StatusOk("audio"), InputDropped>>
        ELSE LET res == VerifyAndAssemble(fs, ~read_audio_fails, ~read_video_fails)
             IN /\ outcome' = res.outcome
                /\ fs' = res.fs
                /\ log' = log \o <<StatusOk("audio"), StatusOk("video")>> \o res.steps
    /\ pc' = "done"
    /\ UNCHANGED <<service, overflow_checks, req, inv>>

\* ffmpeg-worker: the body is read and written to the input temp file, then
\* the audio command runs (std::process::Command::output blocks).
SeparateSequentialStart ==
    /\ service = SeparateSequential
    /\ pc = "idle"
    /\ \E body \in Bodies, temp_fails \in BOOLEAN, audio_spawn_fails \in BOOLEAN :
        /\ req' = [service |-> SeparateSequential, body |-> body]
        /\ IF temp_fails
           THEN /\ outcome' = ErrReturn(<<IoError>>)
                /\ pc' = "done"
                /\ UNCHANGED <<fs, inv, log>>
           ELSE IF audio_spawn_fails
           THEN /\ outcome' = ErrReturn(<<IoError>>)
                /\ pc' = "done"
                /\ inv' = [inv EXCEPT !["audio"] = SpawnFailed(AudioCommand)]
                /\ log' = log \o <<Event("write", InputPath), Event("spawn", "audio"),
                                    InputDropped>>
                /\ UNCHANGED fs
           ELSE /\ fs' = [fs EXCEPT ![InputPath] = body]
                /\ inv' = [inv EXCEPT !["audio"] = Running(AudioCommand)]
                /\ log' = log \o <<Event("write", InputPath), Event("spawn", "audio")>>
                /\ pc' = "audio_wait"
                /\ outcome' = Pending
    /\ UNCHANGED <<service, overflow_checks>>

\* The audio command has returned: its status is checked, then the video
\* command runs.
AfterAudio ==
    /\ service = SeparateSequential
    /\ pc = "audio_wait"
    /\ inv["audio"].state = "exited"
    /\ \E video_spawn_fails \in BOOLEAN :
        IF ~StatusSuccess(inv["audio"])
        THEN /\ outcome' = StatusError("audio", inv["audio"])
             /\ fs' = DropTemp(fs, {InputPath})
             /\ log' = Append(log, InputDropped)
             /\ pc' = "done"
             /\ UNCHANGED inv
        ELSE IF video_spawn_fails
        THEN /\ outcome' = ErrReturn(<<IoError>>)
             /\ fs' = DropTemp(fs, {InputPath})
             /\ log' = log \o <<StatusOk("audio"), Event("spawn", "video"), InputDropped>>
             /\ pc' = "done"
             /\ inv' = [inv EXCEPT !["video"] = SpawnFailed(VideoCommand)]
        ELSE /\ inv' = [inv EXCEPT !["video"] = Running(VideoCommand)]
             /\ log' = log \o <<StatusOk("audio"), Event("spawn", "video")>>
             /\ pc' = "video_wait"
             /\ UNCHANGED <<fs, outcome>>
    /\ UNCHANGED <<service, overflow_checks, req>>

\* The video command has returned: its status, then the rest of the handler.
AfterVideo ==
    /\ service = SeparateSequential
    /\ pc = "video_wait"
    /\ inv["video"].state = "exited"
    /\ \E read_audio_fails \in BOOLEAN, read_video_fails \in BOOLEAN :
        IF ~StatusSuccess(inv["video"])
        THEN /\ outcome' = StatusError("video", inv["video"])
             /\ fs' = DropTemp(fs, {InputPath})
             /\ log' = Append(log, InputDropped)
        ELSE LET res == VerifyAndAssemble(fs, ~read_audio_fails, ~read_video_fails)
             IN /\ outcome' = res.outcome
                /\ fs' = res.fs
                /\ log' = log \o <<StatusOk("video")>> \o res.steps
    /\ pc' = "done"
    /\ UNCHANGED <<service, overflow_checks, req, inv>>

\* ------------------------------------------------------- the specification
Next ==
    \/ ProcessAudio
    \/ ExecuteFinish
    \/ SeparateParallelStart
    \/ TryJoin
    \/ SeparateSequentialStart
    \/ AfterAudio
    \/ AfterVideo
    \/ \E role \in Roles : ToolExit(role)

Spec == Init /\ [][Next]_vars

\* The steps that resume a handler suspended on its tool.
Resume ==
    \/ ExecuteFinish
    \/ TryJoin
    \/ AfterAudio
    \/ AfterVideo

\* The runtime resumes a request task that can make progress, and every
\* started tool process eventually exits.  Nothing forces a request to
\* arrive.
FairSpec ==
    /\ Spec
    /\ WF_vars(Resume)
    /\ \A role \in Roles : WF_vars(ToolExit(role))

\* ------------------------------------------------------------ properties
Separation == {SeparateParallel, SeparateSequential}
Streams == {"audio", "video"}

\* An invocation that reported failure: it could not be started, or it
\* exited with a failure status.
Failed(invocation) ==
    \/ invocation.state = "spawn_err"
    \/ invocation.state = "exited" /\ ~invocation.exit_ok

IsResponse(status) == outcome.kind = "response" /\ outcome.status = status

\* The decoded ranges of the request being served.
RequestRanges == DecodeTimeRanges(req.x_time_ranges).val

\* C1: a separation request answers 200 only if both the audio and the video
\* invocation exited with success; once either has failed, the request ends
\* as an error and no response (hence no extracted bytes) is produced.
C1_AllOrNothing ==
    service \in Separation =>
        /\ IsResponse(200) =>
             \A r \in Streams : inv[r].state = "exited" /\ inv[r].exit_ok
        /\ (pc = "done" /\ \E r \in Streams : Failed(inv[r])) =>
             outcome.kind = "err"

\* The case of C1: audio succeeded, video failed, the request has ended.
C1_Witness ==
    /\ service \in Separation
    /\ pc = "done"
    /\ inv["audio"].state = "exited" /\ inv["audio"].exit_ok
    /\ fs[AudioFilename] = OutputBytes("audio")
    /\ inv["video"].state = "exited" /\ ~inv["video"].exit_ok
    /\ outcome.kind = "err"

\* C2: once a request has ended, none of its scratch files exists.
C2_ScratchCleanedUp ==
    pc = "done" => \A p \in Paths : fs[p] = NoFile

\* C3: for n >= 2 ranges the concatenation sequence has 2n-1 elements, a
\* segment at every even and a gap at every odd 0-based position, n segments
\* and n-1 gaps, segments first and last, and concat is told 2n-1.
C3_ConcatShape ==
    (service = AudioSegment /\ inv["segment"].state # "none"
       /\ Len(RequestRanges) >= 2) =>
        LET n == Len(RequestRanges)
            cmd == inv["segment"].cmd
            parts == cmd.concat_parts
        IN /\ cmd.variant = "multi"
           /\ Len(parts) = 2 * n - 1
           /\ \A p \in 0..(Len(parts) - 1) :
                parts[p + 1].stream = (IF p % 2 = 0 THEN "a" ELSE "gap")
           /\ Cardinality({p \in 1..Len(parts) : parts[p].stream = "a"}) = n
           /\ Cardinality({p \in 1..Len(parts) : parts[p].stream = "gap"}) = n - 1
           /\ parts[1].stream = "a" /\ parts[Len(parts)].stream = "a"
           /\ cmd.concat_n = 2 * n - 1

\* The case of C3: a three-range request whose command has been built.
C3_Witness ==
    /\ service = AudioSegment
    /\ inv["segment"].state = "running"
    /\ Len(RequestRanges) = 3
    /\ inv["segment"].cmd.variant = "multi"

\* The segment labels of a concatenation sequence, in order.
SegmentsOf(parts) == SelectSeq(parts, LAMBDA p : p.stream = "a")

\* C4: in the multi-range path the k-th segment of the concatenation sequence
\* is tool input k, and tool input k is trimmed with start ranges[k].start_ms
\* and duration ranges[k].end_ms - ranges[k].start_ms, for every k.
C4_RequestOrder ==
    (service = AudioSegment /\ inv["segment"].state # "none"
       /\ Len(RequestRanges) >= 2) =>
        LET n == Len(RequestRanges)
            cmd == inv["segment"].cmd
        IN /\ Len(cmd.inputs) = n
           /\ Len(SegmentsOf(cmd.concat_parts)) = n
           /\ \A k \in 0..(n - 1) :
                LET start_ms == RequestRanges[k + 1][1]
                    end_ms == RequestRanges[k + 1][2]
                IN /\ SegmentsOf(cmd.concat_parts)[k + 1].input = k
                   /\ ArgMillis(cmd.inputs[k + 1].ss) = start_ms
                   /\ ~SubOverflows(end_ms, start_ms)
                   /\ ArgMillis(cmd.inputs[k + 1].t) = end_ms - start_ms

\* C5: a request with an empty body never has a tool invocation and ends as
\* a 400 response, in every container.
C5_EmptyPayloadRejected ==
    (req.service # "none" /\ req.body = EmptyBytes) =>
        /\ \A r \in Roles : inv[r].state = "none"
        /\ pc = "done" => IsResponse(400)

\* The formatted durations of a built segment command.
DurationsOf(cmd) ==
    IF cmd.variant = "single" THEN {ArgMillis(cmd.t)}
    ELSE {ArgMillis(cmd.inputs[k].t) : k \in 1..Len(cmd.inputs)}

\* C6: a request with a range whose end_ms <= start_ms is rejected with 400
\* before any tool invocation, so every duration handed to the tool is > 0.
C6_NonPositiveRejected ==
    (service = AudioSegment /\ pc # "idle") =>
        /\ (DecodeTimeRanges(req.x_time_ranges).ok
              /\ \E k \in 1..Len(RequestRanges) :
                    Len(RequestRanges[k]) >= 2
                    /\ RequestRanges[k][2] <= RequestRanges[k][1]) =>
             /\ inv["segment"].state = "none"
             /\ pc = "done" => IsResponse(400)
        /\ inv["segment"].state # "none" =>
             \A d \in DurationsOf(inv["segment"].cmd) : d > 0

\* C7: a missing or undecodable X-Time-Ranges, or one with an element that is
\* not a pair, ends as a 400 application/json failure with no tool invocation.
C7_MalformedIs400 ==
    (service = AudioSegment /\ pc # "idle"
       /\ \/ ~DecodeTimeRanges(req.x_time_ranges).ok
          \/ \E k \in 1..Len(RequestRanges) : Len(RequestRanges[k]) # 2) =>
        /\ inv["segment"].state = "none"
        /\ pc = "done" =>
             /\ IsResponse(400)
             /\ outcome.content_type = "application/json"
             /\ outcome.json.success = FALSE

\* C8: a request one of whose invocations exited with failure ends as a 500
\* application/json {success: false, error} whose text holds that stderr.
\* (With every invocation started, each has exited before the handler ends.)
C8_ToolFailureIs500 ==
    (pc = "done"
       /\ (\A q \in Roles : inv[q].state # "spawn_err")
       /\ (\E q \in Roles : inv[q].state = "exited" /\ ~inv[q].exit_ok)) =>
        /\ IsResponse(500)
        /\ outcome.content_type = "application/json"
        /\ outcome.json.success = FALSE
        /\ \E r \in Roles :
             /\ inv[r].state = "exited" /\ ~inv[r].exit_ok
             /\ \E i \in 1..Len(outcome.json.error) :
                  outcome.json.error[i] = inv[r].stderr

\* C9: no 200 response carries an output that was missing or of zero length.
C9_OutputVerified ==
    IsResponse(200) =>
        IF service = AudioSegment
        THEN outcome.body \notin {NoFile, EmptyBytes}
        ELSE \A part \in {4, 9} : outcome.body[part][1] \notin {NoFile, EmptyBytes}

\* C10: the parallel separation request has not ended while one of its two
\* invocations is still running.
C10_JoinNotRace ==
    (service = SeparateParallel /\ pc = "done") =>
        \A r \in Streams : inv[r].state # "running"

\* C11: a request whose segment command has been built has at least one
\* range; the command is the single cut exactly when there is one range and
\* the multi-segment concatenation exactly when there are more; a request
\* with zero ranges gets no command and no tool invocation.
C11_NonEmptyPlan ==
    (service = AudioSegment /\ pc # "idle" /\ DecodeTimeRanges(req.x_time_ranges).ok) =>
        /\ inv["segment"].state # "none" =>
             /\ Len(RequestRanges) >= 1
             /\ (inv["segment"].cmd.variant = "single") <=> (Len(RequestRanges) = 1)
             /\ (inv["segment"].cmd.variant = "multi") <=> (Len(RequestRanges) > 1)
        /\ Len(RequestRanges) = 0 =>
             /\ inv["segment"].state = "none"
             /\ \A i \in 1..Len(log) : log[i].ev # "spawn"

\* The "-ss"/"-t" pairs of a built segment command, one per range, in order.
TrimsOf(cmd) ==
    IF cmd.variant = "single" THEN << [ss |-> cmd.ss, t |-> cmd.t] >>
    ELSE [k \in 1..Len(cmd.inputs) |-> [ss |-> cmd.inputs[k].ss, t |-> cmd.inputs[k].t]]

\* C12: when every range [s, e] of a request has e > s, computing the
\* durations does not trap, and for every range the start and the duration
\* handed to the tool denote exactly s and e - s milliseconds, the
\* difference e - s lying within i32.
C12_ExactTimes ==
    (service = AudioSegment /\ pc # "idle"
       /\ DecodeTimeRanges(req.x_time_ranges).ok
       /\ Len(RequestRanges) >= 1
       /\ \A k \in 1..Len(RequestRanges) :
            Len(RequestRanges[k]) >= 2 /\ RequestRanges[k][2] > RequestRanges[k][1]) =>
        /\ outcome.kind # "panic"
        /\ inv["segment"].state # "none" =>
             /\ Len(TrimsOf(inv["segment"].cmd)) = Len(RequestRanges)
             /\ \A k \in 1..Len(RequestRanges) :
                  LET s == RequestRanges[k][1]
                      e == RequestRanges[k][2]
                  IN /\ ~SubOverflows(e, s)
                     /\ ArgMillis(TrimsOf(inv["segment"].cmd)[k].ss) = s
                     /\ ArgMillis(TrimsOf(inv["segment"].cmd)[k].t) = e - s

\* How many times the invocation of a role was started (.output() called).
Starts(role) ==
    Cardinality({i \in 1..Len(log) : log[i] = Event("spawn", role)})

\* The operations a step adds to the log.
Added == SubSeq(log', Len(log) + 1, Len(log'))

\* Every invocation is started at most once, and is known to the handler
\* exactly when it was started; a built segment command, single cut or
\* multi-segment, was started exactly once and is the only invocation of its
\* request; a separation request has at most its audio and video ones.
StartCounts ==
    /\ \A r \in Roles : Starts(r) <= 1 /\ (Starts(r) = 1 <=> inv[r].state # "none")
    /\ service = AudioSegment =>
         /\ Starts("audio") = 0 /\ Starts("video") = 0
         /\ inv["segment"].cmd.variant \in {"single", "multi"} => Starts("segment") = 1
    /\ service \in Separation => Starts("segment") = 0

\* A handler step taken once an invocation has failed starts no invocation.
NoStartAfterFailure ==
    (\E r \in Roles : Failed(inv[r])) =>
        \A i \in 1..Len(Added) : Added[i].ev # "spawn"

RECURSIVE FirstAt(_, _)
FirstAt(e, i) ==
    IF i > Len(log) THEN 0
    ELSE IF log[i] = e THEN i
    ELSE FirstAt(e, i + 1)
Pos(e) == FirstAt(e, 1)

\* The chunks of a multipart body that open a part, and those that close
\* the body, for a boundary token b.
PartOpeners(body, b) == {i \in 1..Len(body) : body[i] = <<"--", b, "\r\n">>}
Terminals(body, b) == {i \in 1..Len(body) : body[i] = <<"--", b, "--", "\r\n">>}

\* One part of a multipart body, read from its opening chunk: the name and
\* filename of its Content-Disposition, its Content-Type, and its bytes.
PartAt(body, i) ==
    [name |-> body[i + 1][2], filename |-> body[i + 1][4],
     content_type |-> body[i + 2][2], data |-> body[i + 3][1]]

\* C14: the body of a separation's 200 response has exactly two parts, each
\* opened by the boundary token its Content-Type announces: first audio
\* (audio/aac, audio.aac) with the audio command's output, then video
\* (video/mp4, video.mp4) with the video command's output; exactly one
\* terminal boundary closes the body, as its last chunk.
C14_EnvelopeShape ==
    (service \in Separation /\ IsResponse(200)) =>
        LET body == outcome.body
            token == outcome.content_type[2]
            opens == PartOpeners(body, token)
            first == CHOOSE i \in opens : \A j \in opens : i <= j
            second == CHOOSE i \in opens : \A j \in opens : j <= i
        IN /\ outcome.content_type[1] = "multipart/form-data; boundary="
           /\ token = Boundary
           /\ Cardinality(opens) = 2
           /\ first = 1
           /\ PartAt(body, first).name = "audio"
           /\ PartAt(body, first).filename = "audio.aac"
           /\ PartAt(body, first).content_type = "audio/aac"
           /\ PartAt(body, first).data \in {OutputBytes("audio"), EmptyBytes}
           /\ PartAt(body, second).name = "video"
           /\ PartAt(body, second).filename = "video.mp4"
           /\ PartAt(body, second).content_type = "video/mp4"
           /\ PartAt(body, second).data \in {OutputBytes("video"), EmptyBytes}
           /\ Terminals(body, token) = {Len(body)}

\* The case of C14: the parallel separation answered 200 with both outputs
\* although the video command exited before the audio command.
C14_Witness ==
    /\ service = SeparateParallel
    /\ IsResponse(200)
    /\ outcome.body[4] = <<OutputBytes("audio")>>
    /\ outcome.body[9] = <<OutputBytes("video")>>
    /\ Pos(Event("exit", "video")) > 0
    /\ Pos(Event("exit", "video")) < Pos(Event("exit", "audio"))

\* Whether the X-Gap-Duration header of the request parses as an i32.
GapParses == req.x_gap_duration.kind = "number" /\ req.x_gap_duration.lit.fits

\* An X-Gap-Duration header that supplies 500.
GapHeader500 == [kind |-> "number", lit |-> Num(500)]

\* C16: with X-Gap-Duration absent or unparsable the silence of a
\* multi-segment command lasts exactly 500 ms and the command is the one a
\* header of 500 gives; and whatever the header, a request whose ranges and
\* body are accepted gets its command built and its invocation started
\* (short of an I/O error on the temp files).
C16_GapDefault ==
    (service = AudioSegment /\ pc # "idle") =>
        /\ (inv["segment"].state # "none" /\ ~GapParses) =>
             /\ inv["segment"].cmd =
                  BuildCommand(RequestRanges, ParseGap(GapHeader500))
             /\ inv["segment"].cmd.variant = "multi" =>
                  ArgMillis(inv["segment"].cmd.gap_filter.duration) = 500
        /\ (inv["segment"].state # "none" /\ GapParses
              /\ inv["segment"].cmd.variant = "multi") =>
             ArgMillis(inv["segment"].cmd.gap_filter.duration) = req.x_gap_duration.lit.v
        /\ (DecodeTimeRanges(req.x_time_ranges).ok /\ req.body # EmptyBytes
              /\ ~BuildPanics(RequestRanges, overflow_checks)) =>
             \/ inv["segment"].state # "none"
             \/ outcome = ProcessingFailure(<<IoError>>)

\* The case of C16: a two-range request with an unparsable X-Gap-Duration
\* whose multi-segment command is running.
C16_Witness ==
    /\ service = AudioSegment
    /\ pc = "awaiting"
    /\ req.x_gap_duration.kind = "garbage"
    /\ Len(RequestRanges) = 2
    /\ inv["segment"].state = "running"
    /\ inv["segment"].cmd.variant = "multi"
    /\ inv["segment"].cmd.gap_filter.duration = FormatSec(DefaultGap)

\* The output paths, and the invocation that writes each.
OutputPaths == {OutputPath, AudioFilename, VideoFilename}
WriterOf(path) ==
    CASE path = OutputPath -> "segment"
      [] path = AudioFilename -> "audio"
      [] path = VideoFilename -> "video"

\* Whether operation e occurs in the log before position i.
Before(e, i) == \E j \in 1..(i - 1) : log[j] = e

\* Every invocation is started after the input file was written.
InputWrittenFirst ==
    \A i \in 1..Len(log) :
        log[i].ev = "spawn" => Before(Event("write", InputPath), i)

\* Every read of an output follows the exit of its invocation, the passed
\* check of that exit status and the passed check of the output file, the
\* two checks themselves following the exit.
ReadAfterChecks ==
    \A i \in 1..Len(log) :
        (log[i].ev = "read" /\ log[i].on \in OutputPaths) =>
            LET path == log[i].on
                role == WriterOf(path)
            IN /\ Before(StatusOk(role), i)
               /\ Before(OutputOk(path), i)
               /\ Pos(Event("exit", role)) > 0
               /\ Pos(Event("exit", role)) < Pos(StatusOk(role))
               /\ Pos(Event("exit", role)) < Pos(OutputOk(path))

\* C18 as stated: the input is written before any invocation is started, an
\* output is read only after its invocation exited and both checks passed,
\* and an output file is removed only after it has been read.
C18_StepOrder ==
    /\ InputWrittenFirst
    /\ ReadAfterChecks
    /\ \A i \in 1..Len(log) :
         (log[i].ev = "remove" /\ log[i].on \in OutputPaths) =>
             Before(Event("read", log[i].on), i)

\* C18 amended: as above, but for removal: no output is read after it was
\* removed, the outputs of a 200 response were all read, and the outputs of
\* a separation are removed only after having been read.  (The output temp
\* file of the audio-segment container is also removed, unread, when the
\* request fails.)
C18_StepOrderAmended ==
    /\ InputWrittenFirst
    /\ ReadAfterChecks
    /\ \A i \in 1..Len(log) :
         (log[i].ev = "remove" /\ log[i].on \in OutputPaths) =>
             /\ \A j \in (i + 1)..Len(log) : log[j] # Event("read", log[i].on)
             /\ log[i].on # OutputPath => Before(Event("read", log[i].on), i)
    /\ IsResponse(200) =>
         \A p \in OutputPaths :
             WriterOf(p) \in {r \in Roles : inv[r].state # "none"} =>
                 Pos(Event("read", p)) > 0

\* The case of C18: the audio-segment container answered 200; its output was
\* read after the exit and the checks, and removed afterwards.
C18_Witness ==
    /\ service = AudioSegment
    /\ IsResponse(200)
    /\ Pos(Event("spawn", "segment")) < Pos(Event("exit", "segment"))
    /\ Pos(Event("exit", "segment")) < Pos(Event("read", OutputPath))
    /\ Pos(Event("read", OutputPath)) < Pos(Event("remove", OutputPath))

\* The stream labels a multi-segment command produces, one per producer:
\* "[k:a]" by tool input k, and the label of the one anullsrc source.
ProducedLabels(cmd) ==
    [k \in 1..Len(cmd.inputs) |-> SegLabel(k - 1)] \o <<cmd.gap_filter.label>>

\* How often a label occurs in a sequence of labels.
Occurrences(label, labels) ==
    Cardinality({i \in 1..Len(labels) : labels[i] = label})

\* C19: in a multi-segment command for n >= 2 ranges every label the concat
\* filter consumes is produced exactly once (segment label k by tool input
\* k, 0 <= k < n, the gap label by the silence source), and every produced
\* label is consumed by concat exactly once.
C19_GraphWellFormed ==
    (service = AudioSegment /\ inv["segment"].state # "none"
       /\ Len(RequestRanges) >= 2) =>
        LET cmd == inv["segment"].cmd
            produced == ProducedLabels(cmd)
            consumed == cmd.concat_parts
        IN /\ Len(cmd.inputs) = Len(RequestRanges)
           /\ \A i \in 1..Len(consumed) :
                Occurrences(consumed[i], produced) = 1
           /\ \A i \in 1..Len(produced) :
                Occurrences(produced[i], consumed) = 1

\* How far a handler has come: its position counted in suspensions, the
\* end of the request last.
Rank(position) ==
    CASE position = "idle" -> 0
      [] position \in {"awaiting", "joining", "audio_wait"} -> 1
      [] position = "video_wait" -> 2
      [] position = "done" -> 3

\* A handler step moves strictly forward, and an ended request stays ended
\* with its outcome.
NoLoopBack ==
    /\ pc' # pc => Rank(pc') > Rank(pc)
    /\ pc = "done" => pc' = "done" /\ outcome' = outcome

\* C20: with handler steps scheduled fairly and every started tool process
\* eventually exiting, a request that has been taken up eventually ends with
\* an outcome (a response, an Err, or the abort of its task); the handler's
\* position only moves forward, through at most three steps, and never
\* leaves the end.
C20_Terminates ==
    /\ (pc # "idle") ~> (pc = "done" /\ outcome # Pending)
    /\ [][NoLoopBack]_vars

\* The case of C20: the sequential separation has gone through all three of
\* its steps and both tool runs, and has answered.
C20_Witness ==
    /\ service = SeparateSequential
    /\ pc = "done"
    /\ IsResponse(200)
    /\ Pos(Event("exit", "audio")) > 0
    /\ Pos(Event("exit", "video")) > 0

====
